---- MODULE Spec2Model ----
(***************************************************************************)
(* Model of the zkSync client: ZksyncAccount (the signing context with its *)
(* two mutexes), Wallet (the transfer preparation pipeline) and RpcClient  *)
(* (the JSON-RPC envelope handling).                                       *)
(*                                                                         *)
(* A Rust panic (unwrap / expect on None or Err) is the outcome            *)
(* [tag |-> "Panic"]; a returned Err(..) is [tag |-> "Err"]; a returned    *)
(* value is [tag |-> "Ok"].                                                *)
(***************************************************************************)
EXTENDS Integers, Sequences, FiniteSets, TLC

----------------------------------------------------------------------------
\* Bounds of the model.
NumProcs == 2
MaxNonce == 1
MaxCalls == 2
MaxAccountCalls == 3

Procs == 1 .. NumProcs
Nonces == 0 .. MaxNonce

----------------------------------------------------------------------------
\* Option<T>, Result<T, E> and panics.
None == [is_some |-> FALSE]
Some(x) == [is_some |-> TRUE, val |-> x]
UnwrapOr(o, d) == IF o.is_some THEN o.val ELSE d

Ok(v) == [tag |-> "Ok", val |-> v]
Err(e) == [tag |-> "Err", err |-> e]
Panic(m) == [tag |-> "Panic", msg |-> m]
NoRet == [tag |-> "None"]

----------------------------------------------------------------------------
\* Inputs of the callers.
AccountIds == {7}
Amounts == {1000}
SuppliedFees == {10}
TokenSymbols == {"ETH", "USDT", "XXX"}

\* The decimals argument sign_transfer passes to get_ethereum_sign_message.
SignMessageDecimals == 18

VARIABLES
    nonce,          \* ZksyncAccount.nonce: the value inside the Mutex<Nonce>
    account_id,     \* ZksyncAccount.account_id: the Option inside the mutex
    nonceHolders,   \* callers holding the guard of the nonce mutex
    idHolders,      \* callers holding the guard of the account_id mutex
    noncePoisoned,  \* the nonce mutex was poisoned by a panicking holder
    idPoisoned,     \* the account_id mutex was poisoned
    pc,             \* pc[p]: where caller p is in its current call
    call,           \* call[p]: the operation p runs and its arguments
    loc,            \* loc[p]: the local variables of p's call
    ret,            \* ret[p]: the outcome of p's call
    calls,          \* number of calls started so far (bounded by MaxCalls)
    reqs,           \* reqs[p]: the requests p's current call has sent to the node
    overlap,        \* overlap[p]: callers whose preparation ran during p's current one
    nodeNonce,      \* the node: committed nonce of the account
    nodeId,         \* the node: the account's id, None while unregistered
    base,           \* cached nonce at the start of the current run of signings
    issued          \* nonces of the transfers returned in the current run

vars == <<nonce, account_id, nonceHolders, idHolders, noncePoisoned, idPoisoned,
          pc, call, loc, ret, calls, reqs, overlap, nodeNonce, nodeId, base, issued>>

acctVars == <<nonce, account_id, nonceHolders, idHolders, noncePoisoned, idPoisoned>>
ghostVars == <<base, issued>>
nodeVars == <<nodeNonce, nodeId>>

----------------------------------------------------------------------------
\* Transfer::new_signed: the signed payload commits to these fields.
NewSigned(id, token_id, amount, fee, n) ==
    [account_id |-> id, token |-> token_id, amount |-> amount, fee |-> fee, nonce |-> n]

\* Transfer::get_ethereum_sign_message: rendered from the transfer's own fields.
GetEthereumSignMessage(transfer, token_symbol, decimals) ==
    [token_symbol |-> token_symbol, amount |-> transfer.amount, fee |-> transfer.fee,
     nonce |-> transfer.nonce, decimals |-> decimals]

NoCall == [op |-> "none", token_id |-> 0, token_symbol |-> "ETH", amount |-> 0,
           fee |-> 0, nonce |-> None, increment_nonce |-> FALSE, arg |-> None,
           supplied_fee |-> None, state |-> "Committed"]
NoTransfer == [account_id |-> 0, token |-> 0, amount |-> 0, fee |-> 0, nonce |-> 0]
NoReply == [kind |-> "none", code |-> 0, result |-> [shape |-> "junk"]]
NoLoc == [transfer |-> NoTransfer, signed |-> FALSE, account_id |-> 0, sync_nonce |-> 0,
          nonce_before |-> 0, reply |-> NoReply, decoded |-> FALSE, id_unset |-> FALSE]

\* ZksyncAccount::from_seed: nonce 0, account id unset, both mutexes free.
InitAccount ==
    /\ nonce = 0
    /\ account_id = None
    /\ nonceHolders = {}
    /\ idHolders = {}
    /\ noncePoisoned = FALSE
    /\ idPoisoned = FALSE

InitCallers ==
    /\ pc = [p \in Procs |-> "idle"]
    /\ call = [p \in Procs |-> NoCall]
    /\ loc = [p \in Procs |-> NoLoc]
    /\ ret = [p \in Procs |-> NoRet]
    /\ calls = 0
    /\ reqs = [p \in Procs |-> <<>>]
    /\ overlap = [p \in Procs |-> {}]
    /\ base = 0
    /\ issued = <<>>

----------------------------------------------------------------------------
\* A lock that excludes nobody.
CanLockNonce_NoExclusion(p) == TRUE

\* Mutex::lock blocks while another caller holds the guard.
CanLockNonce(p) == nonceHolders = {}
CanLockId(p) == idHolders = {}

InFlight(q) == pc[q] \notin {"idle", "done"}

\* A caller that is not inside a call starts call c at position at.
Start(p, c, at) ==
    /\ pc[p] \in {"idle", "done"}
    /\ calls < (IF c.op = "prepare_sync_transfer" THEN MaxCalls ELSE MaxAccountCalls)
    /\ calls' = calls + 1
    /\ call' = [call EXCEPT ![p] = c]
    /\ pc' = [pc EXCEPT ![p] = at]

\* The locals of a call that has sent no request yet.
Fresh(p) ==
    /\ loc' = [loc EXCEPT ![p] = NoLoc]
    /\ reqs' = [reqs EXCEPT ![p] = <<>>]

Finish(p, r) ==
    /\ pc' = [pc EXCEPT ![p] = "done"]
    /\ ret' = [ret EXCEPT ![p] = r]

\* A returned Nonce. It is kept as a record, as every other returned value is, so
\* that the values returned by different calls can be told apart by comparison.
NonceValue(n) == [nonce |-> n]

\* ZksyncAccount::nonce: lock, unwrap, read, unlock.
Nonce(p) ==
    /\ Start(p, [NoCall EXCEPT !.op = "nonce"], "done")
    /\ Fresh(p)
    /\ CanLockNonce(p)
    /\ ret' = [ret EXCEPT ![p] = IF noncePoisoned THEN Panic("PoisonError") ELSE Ok(NonceValue(nonce))]
    /\ UNCHANGED <<acctVars, ghostVars, nodeVars, overlap>>

\* A set_nonce that keeps the cached value.
StoreNonce_KeepsCached(p, new_nonce, outcome) ==
    /\ CanLockNonce(p)
    /\ outcome = IF noncePoisoned THEN Panic("PoisonError") ELSE Ok(NonceValue(new_nonce))
    /\ UNCHANGED <<nonce, ghostVars>>

\* The body of ZksyncAccount::set_nonce: *self.nonce.lock().unwrap() = new_nonce.
\* A new run of signings starts at the stored value.
StoreNonce(p, new_nonce, outcome) ==
    /\ CanLockNonce(p)
    /\ IF noncePoisoned
       THEN /\ outcome = Panic("PoisonError")
            /\ UNCHANGED <<nonce, ghostVars>>
       ELSE /\ outcome = Ok(NonceValue(new_nonce))
            /\ nonce' = new_nonce
            /\ base' = new_nonce
            /\ issued' = <<>>

\* ZksyncAccount::set_nonce
SetNonce(p, new_nonce) ==
    /\ Start(p, [NoCall EXCEPT !.op = "set_nonce", !.arg = Some(new_nonce)], "done")
    /\ Fresh(p)
    /\ \E outcome \in {Panic("PoisonError"), Ok(NonceValue(new_nonce))} :
          /\ StoreNonce(p, new_nonce, outcome)
          /\ ret' = [ret EXCEPT ![p] = outcome]
    /\ UNCHANGED <<account_id, nonceHolders, idHolders, noncePoisoned, idPoisoned,
                   nodeVars, overlap>>

\* The body of ZksyncAccount::set_account_id.
StoreAccountId(p, id, outcome) ==
    /\ CanLockId(p)
    /\ IF idPoisoned
       THEN /\ outcome = Panic("PoisonError")
            /\ UNCHANGED account_id
       ELSE /\ outcome = Ok(id)
            /\ account_id' = id

\* ZksyncAccount::set_account_id
SetAccountId(p, id) ==
    /\ Start(p, [NoCall EXCEPT !.op = "set_account_id", !.arg = id], "done")
    /\ Fresh(p)
    /\ \E outcome \in {Panic("PoisonError"), Ok(id)} :
          /\ StoreAccountId(p, id, outcome)
          /\ ret' = [ret EXCEPT ![p] = outcome]
    /\ UNCHANGED <<nonce, nonceHolders, idHolders, noncePoisoned, idPoisoned, ghostVars,
                   nodeVars, overlap>>

\* ZksyncAccount::get_account_id
GetAccountId(p) ==
    /\ Start(p, [NoCall EXCEPT !.op = "get_account_id"], "done")
    /\ Fresh(p)
    /\ CanLockId(p)
    /\ ret' = [ret EXCEPT ![p] = IF idPoisoned THEN Panic("PoisonError") ELSE Ok(account_id)]
    /\ UNCHANGED <<acctVars, ghostVars, nodeVars, overlap>>

----------------------------------------------------------------------------
\* ZksyncAccount::sign_transfer, one action per step of its body.

\* A panic inside sign_transfer unwinds through the guards the caller holds:
\* each held mutex is poisoned and released.
SignPanic(p, m) ==
    /\ noncePoisoned' = (noncePoisoned \/ p \in nonceHolders)
    /\ idPoisoned' = (idPoisoned \/ p \in idHolders)
    /\ nonceHolders' = nonceHolders \ {p}
    /\ idHolders' = idHolders \ {p}
    /\ Finish(p, Panic(m))

SignArgs(token_id, token_symbol, amount, fee, n, increment_nonce) ==
    [NoCall EXCEPT !.op = "sign_transfer", !.token_id = token_id,
                   !.token_symbol = token_symbol, !.amount = amount, !.fee = fee,
                   !.nonce = n, !.increment_nonce = increment_nonce]

\* A direct call of sign_transfer.
SignTransfer(p, token_id, token_symbol, amount, fee, n, increment_nonce) ==
    /\ Start(p, SignArgs(token_id, token_symbol, amount, fee, n, increment_nonce),
             "sign_lock_nonce")
    /\ Fresh(p)
    /\ ret' = [ret EXCEPT ![p] = NoRet]
    /\ overlap' = [q \in Procs |->
                     IF q = p THEN {r \in Procs \ {p} : InFlight(r)}
                     ELSE IF InFlight(q) THEN overlap[q] \cup {p}
                     ELSE overlap[q]]
    /\ UNCHANGED <<acctVars, ghostVars, nodeVars>>

\* let mut stored_nonce = self.nonce.lock().unwrap();
SignLockNonce(p) ==
    /\ pc[p] = "sign_lock_nonce"
    /\ CanLockNonce(p)
    /\ IF noncePoisoned
       THEN /\ SignPanic(p, "PoisonError")
       ELSE /\ nonceHolders' = nonceHolders \cup {p}
            /\ pc' = [pc EXCEPT ![p] = "sign_lock_id"]
            /\ UNCHANGED <<idHolders, noncePoisoned, idPoisoned, ret>>
    /\ UNCHANGED <<nonce, account_id, call, loc, calls, reqs, ghostVars, nodeVars, overlap>>

\* self.account_id.lock().unwrap()
SignLockId(p) ==
    /\ pc[p] = "sign_lock_id"
    /\ CanLockId(p)
    /\ IF idPoisoned
       THEN /\ SignPanic(p, "PoisonError")
       ELSE /\ idHolders' = idHolders \cup {p}
            /\ pc' = [pc EXCEPT ![p] = "sign_new_signed"]
            /\ UNCHANGED <<nonceHolders, noncePoisoned, idPoisoned, ret>>
    /\ UNCHANGED <<nonce, account_id, call, loc, calls, reqs, ghostVars, nodeVars, overlap>>

\* A transfer nonce that is always the cached one.
TransferNonce_CachedAlways(explicit, stored_nonce) == stored_nonce

\* The nonce the transfer carries: nonce.unwrap_or_else(|| *stored_nonce).
TransferNonce(explicit, stored_nonce) == UnwrapOr(explicit, stored_nonce)

\* Transfer::new_signed(account_id.expect(..), .., nonce.unwrap_or_else(..), ..);
\* the account_id guard is a temporary of this statement.
SignNewSigned(p) ==
    /\ pc[p] = "sign_new_signed"
    /\ IF ~account_id.is_some
       THEN /\ SignPanic(p, "can't sign tx withoud account id")
            /\ loc' = [loc EXCEPT ![p].id_unset = TRUE]
       ELSE /\ loc' = [loc EXCEPT ![p].transfer =
                          NewSigned(account_id.val, call[p].token_id, call[p].amount,
                                    call[p].fee, TransferNonce(call[p].nonce, nonce)),
                                  ![p].signed = TRUE]
            /\ idHolders' = idHolders \ {p}
            /\ pc' = [pc EXCEPT ![p] = "sign_increment"]
            /\ UNCHANGED <<nonceHolders, noncePoisoned, idPoisoned, ret>>
    /\ UNCHANGED <<nonce, account_id, call, calls, reqs, ghostVars, nodeVars, overlap>>

\* An increment left for later.
IncrementedNonce_NotYet(n) == n

IncrementedNonce(n) == n + 1

\* An increment that locks the nonce mutex again, through set_nonce, while the call
\* holds its guard.
SignIncrement_Relocks(p) ==
    /\ pc[p] = "sign_increment"
    /\ CanLockNonce(p)
    /\ IF call[p].increment_nonce
       THEN /\ nonce' = IncrementedNonce(nonce)
            /\ IF call[p].nonce.is_some
               THEN base' = IncrementedNonce(nonce) /\ issued' = <<>>
               ELSE UNCHANGED ghostVars
       ELSE UNCHANGED <<nonce, ghostVars>>
    /\ pc' = [pc EXCEPT ![p] = "sign_message"]
    /\ UNCHANGED <<account_id, nonceHolders, idHolders, noncePoisoned, idPoisoned,
                   call, loc, ret, calls, reqs, nodeVars, overlap>>

\* if increment_nonce { *stored_nonce += 1; }
\* An increment that does not follow a read of the cached nonce (an explicit
\* nonce was signed) starts a new run of signings.
SignIncrement(p) ==
    /\ pc[p] = "sign_increment"
    /\ IF call[p].increment_nonce
       THEN /\ nonce' = IncrementedNonce(nonce)
            /\ IF call[p].nonce.is_some
               THEN base' = IncrementedNonce(nonce) /\ issued' = <<>>
               ELSE UNCHANGED ghostVars
       ELSE UNCHANGED <<nonce, ghostVars>>
    /\ pc' = [pc EXCEPT ![p] = "sign_message"]
    /\ UNCHANGED <<account_id, nonceHolders, idHolders, noncePoisoned, idPoisoned,
                   call, loc, ret, calls, reqs, nodeVars, overlap>>

\* A sign_transfer that renders the message from the cached nonce.
SignReturn_MessageFromCache(p) ==
    /\ pc[p] = "sign_message"
    /\ Finish(p, Ok([transfer |-> loc[p].transfer,
                     message |-> GetEthereumSignMessage([loc[p].transfer EXCEPT !.nonce = nonce],
                                     call[p].token_symbol, SignMessageDecimals)]))
    /\ nonceHolders' = nonceHolders \ {p}
    /\ issued' = IF call[p].increment_nonce /\ ~call[p].nonce.is_some
                 THEN Append(issued, loc[p].transfer.nonce)
                 ELSE issued
    /\ UNCHANGED <<nonce, account_id, idHolders, noncePoisoned, idPoisoned,
                   call, loc, calls, reqs, base, nodeVars, overlap>>

\* let eth_sign_message = transfer.get_ethereum_sign_message(token_symbol, 18);
\* (transfer, eth_sign_message): the nonce guard is dropped on return.
SignReturn(p) ==
    /\ pc[p] = "sign_message"
    /\ Finish(p, Ok([transfer |-> loc[p].transfer,
                     message |-> GetEthereumSignMessage(loc[p].transfer,
                                     call[p].token_symbol, SignMessageDecimals)]))
    /\ nonceHolders' = nonceHolders \ {p}
    /\ issued' = IF call[p].increment_nonce /\ ~call[p].nonce.is_some
                 THEN Append(issued, loc[p].transfer.nonce)
                 ELSE issued
    /\ UNCHANGED <<nonce, account_id, idHolders, noncePoisoned, idPoisoned,
                   call, loc, calls, reqs, base, nodeVars, overlap>>

----------------------------------------------------------------------------
\* Callers using one ZksyncAccount directly.
InitNode ==
    /\ nodeNonce = 0
    /\ nodeId = None

InitAcct == InitAccount /\ InitCallers /\ InitNode

SignSteps(p) ==
    \/ SignLockNonce(p)
    \/ SignLockId(p)
    \/ SignNewSigned(p)
    \/ SignIncrement(p)
    \/ SignReturn(p)

NextAccount ==
    \E p \in Procs :
        \/ Nonce(p)
        \/ \E n \in Nonces : SetNonce(p, n)
        \/ \E id \in AccountIds : SetAccountId(p, Some(id))
        \/ SetAccountId(p, None)
        \/ GetAccountId(p)
        \/ \E a \in Amounts, f \in SuppliedFees, inc \in BOOLEAN,
              n \in {None} \cup {Some(x) : x \in Nonces} :
                 SignTransfer(p, 0, "ETH", a, f, n, inc)
        \/ SignSteps(p)

SpecAccount == InitAcct /\ [][NextAccount]_vars

\* The calls that contend for the two locks: every operation of the object, with
\* the arguments on which its locking could depend (the nonce given or left to the
\* cache, the increment asked for or not).
NextAccountLocks ==
    \E p \in Procs :
        \/ Nonce(p)
        \/ \E n \in Nonces : SetNonce(p, n)
        \/ \E id \in AccountIds : SetAccountId(p, Some(id))
        \/ SetAccountId(p, None)
        \/ GetAccountId(p)
        \/ \E a \in Amounts, f \in SuppliedFees, inc \in BOOLEAN, n \in {None, Some(0)} :
              SignTransfer(p, 0, "ETH", a, f, n, inc)
        \/ SignSteps(p)

\* Callers that keep running: a call that can take its next step (its thread is not
\* blocked on a lock) eventually takes it.
SpecAccountFair ==
    /\ InitAcct /\ [][NextAccountLocks]_vars
    /\ \A p \in Procs : WF_pc(SignSteps(p))

----------------------------------------------------------------------------
\* RpcClient: what the node may answer to one POST, and how each call decodes it.

\* models.rs RpcErrorCodes: the failure codes of the node.
RpcErrorCodes == {101, 103, 104, 200, 201, 202, 203, 300, 301, 302}

\* models.rs RpcErrorCodes: the variant that names each code.
RpcErrorCodeName(c) ==
    CASE c = 101 -> "NonceMismatch"
      [] c = 103 -> "IncorrectTx"
      [] c = 104 -> "FeeTooLow"
      [] c = 200 -> "MissingEthSignature"
      [] c = 201 -> "EIP1271SignatureVerificationFail"
      [] c = 202 -> "IncorrectEthSignature"
      [] c = 203 -> "ChangePkNotAuthorized"
      [] c = 300 -> "Other"
      [] c = 301 -> "AccountCloseDisabled"
      [] c = 302 -> "OperationsLimitReached"

Junk == [shape |-> "junk"]
ConnError == [kind |-> "conn_error", code |-> 0, result |-> Junk]
HttpStatus == [kind |-> "http_status", code |-> 0, result |-> Junk]
BadBody == [kind |-> "bad_body", code |-> 0, result |-> Junk]
Failure(c) == [kind |-> "failure", code |-> c, result |-> Junk]
Success(v) == [kind |-> "success", code |-> 0, result |-> v]

\* A failure::Error: kind is the type of the error it wraps (the reqwest::Error that
\* the ? operator converts, or the ErrorMessage that bail! builds from a format
\* string), msg the format string, code the failure code that v.error renders.
TransportFailed == [kind |-> "reqwest::Error", msg |-> "", code |-> 0]
NonOkResponse ==
    [kind |-> "ErrorMessage", msg |-> "Post query responded with a non-OK response", code |-> 0]
RpcError(c) == [kind |-> "ErrorMessage", msg |-> "RPC error", code |-> c]

\* RpcClient::post_raw: the request fails to be sent or answered (send().await?),
\* the status is not OK (bail!), the body is no JSON-RPC output (json().await.unwrap()),
\* or the output is returned.
PostRaw(reply) ==
    CASE reply.kind = "conn_error" -> Err(TransportFailed)
      [] reply.kind = "http_status" -> Err(NonOkResponse)
      [] reply.kind = "bad_body" -> Panic("post_raw")
      [] OTHER -> Ok(reply)

\* A post that hands the payload of either envelope to the decoder.
Post_IgnoresEnvelope(reply) ==
    LET r == PostRaw(reply) IN
    IF r.tag # "Ok" THEN r ELSE Ok(r.val.result)

\* RpcClient::post: Output::Success yields the result, Output::Failure bails.
Post(reply) ==
    LET r == PostRaw(reply) IN
    IF r.tag # "Ok" THEN r
    ELSE IF r.val.kind = "success" THEN Ok(r.val.result)
    ELSE Err(RpcError(r.val.code))

\* The outcome of a call and whether it went on to decode a result payload.
Undecoded(r) == [res |-> r, decoded |-> FALSE]
Decoded(r) == [res |-> r, decoded |-> TRUE]

\* RpcClient::get_tx_fee
GetTxFee(reply) ==
    LET r == Post(reply) IN
    IF r.tag # "Ok" THEN Undecoded(r)
    ELSE Decoded(IF r.val.shape # "fee" \/ ~r.val.is_str
                 THEN Panic("Incorrect totalFee entry of response")
                 ELSE IF ~r.val.parses
                 THEN Panic("failed to parse get_tx_fee response")
                 ELSE Ok(r.val.value))

\* RpcClient::send_tx
SendTx(reply) ==
    LET r == Post(reply) IN
    IF r.tag # "Ok" THEN Undecoded(r)
    ELSE Decoded(IF r.val.shape # "hash"
                 THEN Panic("failed to parse send_tx response")
                 ELSE Ok(r.val.value))

\* RpcClient::account_state_info
AccountStateInfo(reply) ==
    LET r == Post(reply) IN
    IF r.tag # "Ok" THEN Undecoded(r)
    ELSE Decoded(IF r.val.shape # "account"
                 THEN Panic("failed to parse account request response")
                 ELSE Ok(r.val))

\* A verified flag read from the block whether or not the operation is executed.
Verified_FromBlockAlone(executed, block) ==
    IF block.is_some /\ block.val.verified.is_some
    THEN Ok(block.val.verified.val)
    ELSE IF executed THEN Panic("unwrap on None") ELSE Ok(FALSE)

\* The body shared by RpcClient::ethop_info and RpcClient::tx_info after post:
\* as_object().unwrap(), obj["executed"].as_bool().unwrap(), and only when executed
\* obj["block"].as_object().unwrap() and block["verified"].as_bool().unwrap().
Verified(executed, block) ==
    IF executed
    THEN IF ~block.is_some \/ ~block.val.verified.is_some
         THEN Panic("unwrap on None")
         ELSE Ok(block.val.verified.val)
    ELSE Ok(FALSE)

OperationStateOf(v) ==
    IF v.shape # "object" \/ ~v.executed.is_some
    THEN Panic("unwrap on None")
    ELSE LET verified == Verified(v.executed.val, v.block) IN
         IF verified.tag # "Ok" THEN verified
         ELSE Ok([executed |-> v.executed.val, verified |-> verified.val])

\* RpcClient::ethop_info
EthopInfo(reply) ==
    LET r == Post(reply) IN
    IF r.tag # "Ok" THEN Undecoded(r) ELSE Decoded(OperationStateOf(r.val))

\* RpcClient::tx_info
TxInfo(reply) ==
    LET r == Post(reply) IN
    IF r.tag # "Ok" THEN Undecoded(r) ELSE Decoded(OperationStateOf(r.val))

\* RpcClient::get_tokens, the token catalogue lookup Wallet::resolve_token_id calls.
GetTokens(reply) ==
    LET r == Post(reply) IN
    IF r.tag # "Ok" THEN Undecoded(r)
    ELSE Decoded(IF r.val.shape # "tokens"
                 THEN Panic("failed to parse tokens response")
                 ELSE Ok(r.val.tokens))

----------------------------------------------------------------------------
\* The results the node can put in a success envelope.
TokenCatalogue ==
    [sym \in {"ETH", "USDT"} |->
        IF sym = "ETH" THEN [id |-> 0, decimals |-> 18] ELSE [id |-> 1, decimals |-> 6]]
CommittedBalances == [sym \in {"ETH", "USDT"} |-> IF sym = "ETH" THEN 5 ELSE 9]
VerifiedBalances == [sym \in {"ETH"} |-> 3]

\* models.rs AccountInfoResp with its two ResponseAccountState snapshots.
AccountInfoResp(id, n) ==
    [shape |-> "account", id |-> id,
     committed |-> [nonce |-> n, balances |-> CommittedBalances],
     verified |-> [nonce |-> 0, balances |-> VerifiedBalances]]

FeeResult(is_str, parses, v) == [shape |-> "fee", is_str |-> is_str, parses |-> parses, value |-> v]
EstimatedFees == {20}

\* Answers that carry no usable result, whatever the method.
Faults == {ConnError, HttpStatus, BadBody, Success(Junk)} \cup {Failure(c) : c \in RpcErrorCodes}

OptBool == {None, Some(TRUE), Some(FALSE)}
OpInfoResults ==
    {[shape |-> "object", executed |-> e, block |-> b] :
        e \in OptBool, b \in {None} \cup {Some([verified |-> v]) : v \in OptBool}}

\* Every answer a call of the method can meet.
AllReplies(method) ==
    Faults \cup
    CASE method = "get_tx_fee" ->
            {Success(FeeResult(TRUE, TRUE, f)) : f \in EstimatedFees}
            \cup {Success(FeeResult(TRUE, FALSE, 0)), Success(FeeResult(FALSE, FALSE, 0))}
      [] method = "tx_submit" -> {Success([shape |-> "hash", value |-> 1])}
      [] method = "account_info" ->
            {Success(AccountInfoResp(id, n)) :
                id \in {None} \cup {Some(i) : i \in AccountIds}, n \in Nonces}
      [] method = "tokens" -> {Success([shape |-> "tokens", tokens |-> TokenCatalogue])}
      [] OTHER -> {Success(v) : v \in OpInfoResults}

\* What the node answers in its current state: a fault, or the truthful result.
NodeFaults == {ConnError, Success(Junk)}

NodeReplies(method) ==
    NodeFaults \cup
    CASE method = "account_info" -> {Success(AccountInfoResp(nodeId, nodeNonce))}
      [] method = "get_tx_fee" -> {Success(FeeResult(TRUE, TRUE, f)) : f \in EstimatedFees}
      [] method = "tokens" -> {Success([shape |-> "tokens", tokens |-> TokenCatalogue])}
      [] OTHER -> {}

----------------------------------------------------------------------------
\* One RpcClient call: the request is sent, the answer decoded, the outcome returned.
RpcCallers == {1}

RpcCall(p, method, reply, outcome) ==
    /\ Start(p, [NoCall EXCEPT !.op = method], "done")
    /\ loc' = [loc EXCEPT ![p] = [NoLoc EXCEPT !.reply = reply, !.decoded = outcome.decoded]]
    /\ reqs' = [reqs EXCEPT ![p] = <<method>>]
    /\ ret' = [ret EXCEPT ![p] = outcome.res]

CallGetTxFee(p) ==
    /\ \E reply \in AllReplies("get_tx_fee") :
          RpcCall(p, "get_tx_fee", reply, GetTxFee(reply))
    /\ UNCHANGED <<acctVars, ghostVars, nodeVars, overlap>>

CallSendTx(p) ==
    /\ \E reply \in AllReplies("tx_submit") :
          RpcCall(p, "tx_submit", reply, SendTx(reply))
    /\ UNCHANGED <<acctVars, ghostVars, nodeVars, overlap>>

CallAccountStateInfo(p) ==
    /\ \E reply \in AllReplies("account_info") :
          RpcCall(p, "account_info", reply, AccountStateInfo(reply))
    /\ UNCHANGED <<acctVars, ghostVars, nodeVars, overlap>>

CallEthopInfo(p) ==
    /\ \E reply \in AllReplies("ethop_info") :
          RpcCall(p, "ethop_info", reply, EthopInfo(reply))
    /\ UNCHANGED <<acctVars, ghostVars, nodeVars, overlap>>

CallTxInfo(p) ==
    /\ \E reply \in AllReplies("tx_info") :
          RpcCall(p, "tx_info", reply, TxInfo(reply))
    /\ UNCHANGED <<acctVars, ghostVars, nodeVars, overlap>>


----------------------------------------------------------------------------
\* Wallet: the pure part of its calls, applied to the node's answer.

\* Result::unwrap: an Err becomes a panic at the place named.
Unwrap(r, where) == IF r.tag = "Err" THEN Panic(where) ELSE r

\* Wallet::_get_state
Wallet_get_state(reply) == Unwrap(AccountStateInfo(reply).res, "_get_state: unwrap on Err")

\* Wallet::get_account_id: account_state.id.unwrap()
Wallet_get_account_id(reply) ==
    LET account_state == Wallet_get_state(reply) IN
    IF account_state.tag # "Ok" THEN account_state
    ELSE IF account_state.val.id.is_some
    THEN Ok(account_state.val.id.val)
    ELSE Panic("get_account_id: unwrap on None")

\* A get_nonce that reads the verified snapshot.
Wallet_get_nonce_Verified(reply) ==
    LET account_state == Wallet_get_state(reply) IN
    IF account_state.tag # "Ok" THEN account_state
    ELSE Ok(account_state.val.verified.nonce)

\* Wallet::get_nonce: account_state.committed.nonce
Wallet_get_nonce(reply) ==
    LET account_state == Wallet_get_state(reply) IN
    IF account_state.tag # "Ok" THEN account_state
    ELSE Ok(account_state.val.committed.nonce)

\* Wallet::get_balance: balances.get(token).cloned().unwrap().0
Wallet_get_balance(reply, token, state) ==
    LET account_state == Wallet_get_state(reply) IN
    IF account_state.tag # "Ok" THEN account_state
    ELSE LET balances == IF state = "Committed"
                         THEN account_state.val.committed.balances
                         ELSE account_state.val.verified.balances
         IN IF token \in DOMAIN balances
            THEN Ok(balances[token])
            ELSE Panic("get_balance: unwrap on None")

\* Wallet::resolve_token_id: Some(tokens.get(token_symbol)?.id)
Wallet_resolve_token_id(reply, token_symbol) ==
    LET tokens == Unwrap(GetTokens(reply).res, "resolve_token_id: unwrap on Err") IN
    IF tokens.tag # "Ok" THEN tokens
    ELSE Ok(IF token_symbol \in DOMAIN tokens.val
            THEN Some(tokens.val[token_symbol].id)
            ELSE None)

\* fee.unwrap_or(self.provider.get_tx_fee(..).await.unwrap()): the argument of
\* unwrap_or is evaluated before unwrap_or is applied.
ResolveFee(supplied, reply) ==
    LET estimate == Unwrap(GetTxFee(reply).res, "prepare_sync_transfer: get_tx_fee unwrap on Err") IN
    IF estimate.tag # "Ok" THEN estimate
    ELSE Ok(UnwrapOr(supplied, estimate.val))

----------------------------------------------------------------------------
\* Wallet calls that only read the node.

WalletCall(p, c, reply, outcome) ==
    /\ Start(p, c, "done")
    /\ loc' = [loc EXCEPT ![p] = [NoLoc EXCEPT !.reply = reply]]
    /\ reqs' = [reqs EXCEPT ![p] = <<"account_info">>]
    /\ ret' = [ret EXCEPT ![p] = outcome]

CallWalletGetAccountId(p) ==
    /\ \E reply \in AllReplies("account_info") :
          WalletCall(p, [NoCall EXCEPT !.op = "wallet_get_account_id"], reply,
                     Wallet_get_account_id(reply))
    /\ UNCHANGED <<acctVars, ghostVars, nodeVars, overlap>>

CallWalletGetNonce(p) ==
    /\ \E reply \in AllReplies("account_info") :
          WalletCall(p, [NoCall EXCEPT !.op = "wallet_get_nonce"], reply,
                     Wallet_get_nonce(reply))
    /\ UNCHANGED <<acctVars, ghostVars, nodeVars, overlap>>

CallWalletGetBalance(p, token, state) ==
    /\ \E reply \in AllReplies("account_info") :
          WalletCall(p, [NoCall EXCEPT !.op = "get_balance", !.token_symbol = token,
                                       !.state = state], reply,
                     Wallet_get_balance(reply, token, state))
    /\ UNCHANGED <<acctVars, ghostVars, nodeVars, overlap>>

\* Callers of the calls that send one request and touch no client state.
NextRpc ==
    \E p \in RpcCallers :
        \/ CallGetTxFee(p)
        \/ CallSendTx(p)
        \/ CallAccountStateInfo(p)
        \/ CallEthopInfo(p)
        \/ CallTxInfo(p)
        \/ CallWalletGetAccountId(p)
        \/ CallWalletGetNonce(p)
        \/ \E sym \in TokenSymbols, st \in {"Committed", "Verified"} :
              CallWalletGetBalance(p, sym, st)

SpecRpc == InitAcct /\ [][NextRpc]_vars

----------------------------------------------------------------------------
\* Wallet::prepare_sync_transfer, one action per await point and per locked store.

PrepareSyncTransfer(p, token_symbol, amount, fee) ==
    /\ Start(p, [NoCall EXCEPT !.op = "prepare_sync_transfer", !.token_symbol = token_symbol,
                               !.amount = amount, !.supplied_fee = fee],
             "prep_get_account_id")
    /\ Fresh(p)
    /\ ret' = [ret EXCEPT ![p] = NoRet]
    /\ overlap' = [q \in Procs |->
                     IF q = p THEN {r \in Procs \ {p} : InFlight(r)}
                     ELSE IF InFlight(q) THEN overlap[q] \cup {p}
                     ELSE overlap[q]]
    /\ UNCHANGED <<acctVars, ghostVars, nodeVars>>

Sent(p, method) == reqs' = [reqs EXCEPT ![p] = Append(@, method)]

\* let account_id = self.get_account_id().await;
PrepGetAccountId(p) ==
    /\ pc[p] = "prep_get_account_id"
    /\ Sent(p, "account_info")
    /\ \E reply \in NodeReplies("account_info") :
          LET id == Wallet_get_account_id(reply) IN
          IF id.tag = "Ok"
          THEN /\ loc' = [loc EXCEPT ![p].account_id = id.val]
               /\ pc' = [pc EXCEPT ![p] = "prep_set_account_id"]
               /\ UNCHANGED ret
          ELSE /\ Finish(p, id)
               /\ UNCHANGED loc
    /\ UNCHANGED <<acctVars, ghostVars, nodeVars, overlap, call, calls>>

\* sync_acc.set_account_id(Some(account_id));
PrepSetAccountId(p) ==
    /\ pc[p] = "prep_set_account_id"
    /\ \E outcome \in {Panic("PoisonError"), Ok(Some(loc[p].account_id))} :
          /\ StoreAccountId(p, Some(loc[p].account_id), outcome)
          /\ IF outcome.tag = "Ok"
             THEN pc' = [pc EXCEPT ![p] = "prep_get_nonce"] /\ UNCHANGED ret
             ELSE Finish(p, outcome)
    /\ UNCHANGED <<nonce, nonceHolders, idHolders, noncePoisoned, idPoisoned,
                   ghostVars, nodeVars, overlap, call, loc, calls, reqs>>

\* self.get_nonce().await
PrepGetNonce(p) ==
    /\ pc[p] = "prep_get_nonce"
    /\ Sent(p, "account_info")
    /\ \E reply \in NodeReplies("account_info") :
          LET n == Wallet_get_nonce(reply) IN
          IF n.tag = "Ok"
          THEN /\ loc' = [loc EXCEPT ![p].sync_nonce = n.val]
               /\ pc' = [pc EXCEPT ![p] = "prep_set_nonce"]
               /\ UNCHANGED ret
          ELSE /\ Finish(p, n)
               /\ UNCHANGED loc
    /\ UNCHANGED <<acctVars, ghostVars, nodeVars, overlap, call, calls>>

\* sync_acc.set_nonce(..);
PrepSetNonce(p) ==
    /\ pc[p] = "prep_set_nonce"
    /\ \E outcome \in {Panic("PoisonError"), Ok(NonceValue(loc[p].sync_nonce))} :
          /\ StoreNonce(p, loc[p].sync_nonce, outcome)
          /\ loc' = [loc EXCEPT ![p].nonce_before = nonce]
          /\ IF outcome.tag = "Ok"
             THEN pc' = [pc EXCEPT ![p] = "prep_resolve_token"] /\ UNCHANGED ret
             ELSE Finish(p, outcome)
    /\ UNCHANGED <<account_id, nonceHolders, idHolders, noncePoisoned, idPoisoned,
                   nodeVars, overlap, call, calls, reqs>>

\* A preparation that signs as soon as the token is resolved, with the fee it was
\* given or none, without resolving the fee.
PrepResolveToken_SkipsFee(p) ==
    /\ pc[p] = "prep_resolve_token"
    /\ Sent(p, "tokens")
    /\ \E reply \in NodeReplies("tokens") :
          LET token_id == Wallet_resolve_token_id(reply, call[p].token_symbol) IN
          IF token_id.tag # "Ok"
          THEN Finish(p, token_id) /\ UNCHANGED call
          ELSE IF ~token_id.val.is_some
          THEN Finish(p, Panic("prepare_sync_transfer: token_id unwrap on None"))
               /\ UNCHANGED call
          ELSE /\ call' = [call EXCEPT ![p].token_id = token_id.val.val,
                                       ![p].fee = UnwrapOr(call[p].supplied_fee, 0),
                                       ![p].nonce = None, ![p].increment_nonce = TRUE]
               /\ pc' = [pc EXCEPT ![p] = "sign_lock_nonce"]
               /\ UNCHANGED ret
    /\ UNCHANGED <<acctVars, ghostVars, nodeVars, overlap, loc, calls>>

\* let token_id = self.resolve_token_id(&token_symbol).await.unwrap();
PrepResolveToken(p) ==
    /\ pc[p] = "prep_resolve_token"
    /\ Sent(p, "tokens")
    /\ \E reply \in NodeReplies("tokens") :
          LET token_id == Wallet_resolve_token_id(reply, call[p].token_symbol) IN
          IF token_id.tag # "Ok"
          THEN Finish(p, token_id) /\ UNCHANGED call
          ELSE IF ~token_id.val.is_some
          THEN Finish(p, Panic("prepare_sync_transfer: token_id unwrap on None"))
               /\ UNCHANGED call
          ELSE /\ call' = [call EXCEPT ![p].token_id = token_id.val.val]
               /\ pc' = [pc EXCEPT ![p] = "prep_fee"]
               /\ UNCHANGED ret
    /\ UNCHANGED <<acctVars, ghostVars, nodeVars, overlap, loc, calls>>

\* let fee = fee.unwrap_or(self.provider.get_tx_fee(..).await.unwrap());
\* then sync_acc.sign_transfer(token_id, &token_symbol, amount, fee, to, None, true).
PrepFee(p) ==
    /\ pc[p] = "prep_fee"
    /\ Sent(p, "get_tx_fee")
    /\ \E reply \in NodeReplies("get_tx_fee") :
          LET fee == ResolveFee(call[p].supplied_fee, reply) IN
          IF fee.tag # "Ok"
          THEN Finish(p, fee) /\ UNCHANGED call
          ELSE /\ call' = [call EXCEPT ![p].fee = fee.val, ![p].nonce = None,
                                       ![p].increment_nonce = TRUE]
               /\ pc' = [pc EXCEPT ![p] = "sign_lock_nonce"]
               /\ UNCHANGED ret
    /\ UNCHANGED <<acctVars, ghostVars, nodeVars, overlap, loc, calls>>

----------------------------------------------------------------------------
\* The node's account changes through other clients and earlier submissions.
NodeCommit ==
    /\ nodeNonce < MaxNonce
    /\ nodeNonce' = nodeNonce + 1
    /\ UNCHANGED <<acctVars, ghostVars, nodeId, overlap, pc, call, loc, ret, calls, reqs>>

NodeRegister ==
    /\ ~nodeId.is_some
    /\ \E id \in AccountIds : nodeId' = Some(id)
    /\ UNCHANGED <<acctVars, ghostVars, nodeNonce, overlap, pc, call, loc, ret, calls, reqs>>

\* What the node answers to tx_submit: a fault, the hash of the transaction when
\* its nonce is the account's committed nonce, failure 101 (nonce mismatch) otherwise.
TxHashResult == [shape |-> "hash", value |-> 1]

NodeSubmitReplies(tx) ==
    {ConnError} \cup
    (IF tx.nonce = nodeNonce THEN {Success(TxHashResult)} ELSE {Failure(101)})

\* Wallet::sync_transfer: self.provider.send_tx(tx, Some(eth_signature)).await.unwrap(),
\* called with the transfer the caller's preparation returned. An accepted
\* transaction advances the committed nonce of the account.
SyncTransfer(p) ==
    /\ pc[p] = "done" /\ call[p].op = "prepare_sync_transfer" /\ ret[p].tag = "Ok"
    /\ Start(p, [NoCall EXCEPT !.op = "sync_transfer"], "done")
    /\ reqs' = [reqs EXCEPT ![p] = <<"tx_submit">>]
    /\ \E reply \in NodeSubmitReplies(ret[p].val.transfer) :
          /\ loc' = [loc EXCEPT ![p] = [NoLoc EXCEPT !.transfer = ret[p].val.transfer,
                                                     !.reply = reply]]
          /\ ret' = [ret EXCEPT ![p] = Unwrap(SendTx(reply).res, "sync_transfer: unwrap on Err")]
          /\ nodeNonce' = IF reply = Success(TxHashResult) THEN nodeNonce + 1 ELSE nodeNonce
    /\ UNCHANGED <<acctVars, ghostVars, nodeId, overlap>>

Init == InitAccount /\ InitCallers /\ InitNode

\* The tasks that run preparations on the one Wallet: two, so that two
\* preparations can be in flight at once.
WalletCallers == {1, 2}

Next ==
    \/ \E p \in WalletCallers :
        \/ \E sym \in TokenSymbols, a \in Amounts, f \in {None} \cup {Some(x) : x \in SuppliedFees} :
              PrepareSyncTransfer(p, sym, a, f)
        \/ PrepGetAccountId(p)
        \/ PrepSetAccountId(p)
        \/ PrepGetNonce(p)
        \/ PrepSetNonce(p)
        \/ PrepResolveToken(p)
        \/ PrepFee(p)
        \/ SignSteps(p)
        \/ SyncTransfer(p)
    \/ NodeCommit
    \/ NodeRegister

Spec == Init /\ [][Next]_vars

----------------------------------------------------------------------------
\* Properties.

Done(p, op) == pc[p] = "done" /\ call[p].op = op
Range(seq) == {seq[i] : i \in DOMAIN seq}
RpcMethods == {"get_tx_fee", "tx_submit", "account_info", "ethop_info", "tx_info"}

\* C1: in a run of N sign_transfer calls with nonce=None and increment_nonce=true
\* that starts at cached nonce base (no set_nonce and no other write of the cache in
\* between), whenever no call holds the nonce guard the returned transfers carry
\* exactly the nonces base .. base+N-1, each once, and the cached nonce is base+N.
C1_NonceMonotonicity ==
    nonceHolders = {} =>
        /\ nonce = base + Len(issued)
        /\ Range(issued) = base .. (base + Len(issued) - 1)

\* Two callers were inside sign_transfer at the same time and both have returned.
C1_Witness ==
    /\ Len(issued) >= 2
    /\ \E p, q \in Procs :
          /\ p # q
          /\ Done(p, "sign_transfer") /\ ret[p].tag = "Ok"
          /\ Done(q, "sign_transfer") /\ ret[q].tag = "Ok"
          /\ ret[p].val.transfer.nonce + 1 = ret[q].val.transfer.nonce
          /\ nonce = ret[q].val.transfer.nonce + 1

\* C2: two prepare_sync_transfer calls that were in flight at the same time on the
\* one Wallet return transfers with different nonces.
C2_ConcurrentPreparationsDistinctNonces ==
    \A p, q \in Procs :
        ( /\ p # q
          /\ Done(p, "prepare_sync_transfer") /\ ret[p].tag = "Ok"
          /\ Done(q, "prepare_sync_transfer") /\ ret[q].tag = "Ok"
          /\ q \in overlap[p] /\ p \in overlap[q] )
        => ret[p].val.transfer.nonce # ret[q].val.transfer.nonce

\* C3: a prepare_sync_transfer that ran with no other preparation in flight returns
\* a transfer whose nonce is the committed nonce the node reported at its sync,
\* whatever the cached nonce was before.
C3_SyncOverwritesNonce ==
    \A p \in Procs :
        (Done(p, "prepare_sync_transfer") /\ ret[p].tag = "Ok" /\ overlap[p] = {})
        => ret[p].val.transfer.nonce = loc[p].sync_nonce

\* A preparation after one that was signed and never submitted: the cache was one
\* ahead of the node and the sync overwrote it.
C3_Witness ==
    \E p \in Procs :
        /\ Done(p, "prepare_sync_transfer") /\ ret[p].tag = "Ok" /\ overlap[p] = {}
        /\ loc[p].nonce_before = loc[p].sync_nonce + 1
        /\ ret[p].val.transfer.nonce = nodeNonce

\* C4: every OperationState tx_info or ethop_info returns has verified => executed,
\* and an answer with executed=false yields verified=false whatever its block holds.
C4_FinalityOrdering ==
    \A p \in Procs :
        (Done(p, "tx_info") \/ Done(p, "ethop_info")) =>
            /\ ret[p].tag = "Ok" => (ret[p].val.verified => ret[p].val.executed)
            /\ ( /\ loc[p].reply.kind = "success"
                 /\ loc[p].reply.result.shape = "object"
                 /\ loc[p].reply.result.executed = Some(FALSE) )
               => ret[p] = Ok([executed |-> FALSE, verified |-> FALSE])

\* Not executed, yet the block in the answer is flagged verified.
C4_Witness ==
    \E p \in Procs :
        /\ Done(p, "tx_info")
        /\ loc[p].reply = Success([shape |-> "object", executed |-> Some(FALSE),
                                   block |-> Some([verified |-> Some(TRUE)])])
        /\ ret[p] = Ok([executed |-> FALSE, verified |-> FALSE])

\* C5: when the node answers an RpcClient call with a failure envelope, the call
\* returns an error, never a decoded result, and decodes no result payload.
C5_FailureEnvelopeShortCircuits ==
    \A p \in Procs :
        (pc[p] = "done" /\ call[p].op \in RpcMethods /\ loc[p].reply.kind = "failure")
        => (ret[p].tag = "Err" /\ ~loc[p].decoded)

C5_Witness ==
    \E p \in Procs :
        /\ Done(p, "tx_submit")
        /\ loc[p].reply = Failure(101)
        /\ ret[p] = Err(RpcError(101))

\* C6: a success envelope makes an RpcClient call return a value: the decoded
\* result, or a ProtocolError when the result does not have the expected shape.
C6_UndecodableResultIsProtocolError ==
    \A p \in Procs :
        (pc[p] = "done" /\ call[p].op \in RpcMethods /\ loc[p].reply.kind = "success")
        => \/ ret[p].tag = "Ok"
           \/ ret[p].tag = "Err" /\ ret[p].err.kind = "ProtocolError"

\* C7: when the account_info answer has no id, Wallet::get_account_id returns the
\* error AccountNotRegistered to its caller.
C7_UnregisteredIsAccountNotRegistered ==
    \A p \in Procs :
        ( /\ Done(p, "wallet_get_account_id")
          /\ loc[p].reply.kind = "success"
          /\ loc[p].reply.result.shape = "account"
          /\ ~loc[p].reply.result.id.is_some )
        => (ret[p].tag = "Err" /\ ret[p].err.kind = "AccountNotRegistered")

\* C8: Wallet::get_balance returns the entry of the selected balances map for a
\* symbol that is present and zero for a symbol that is absent.
C8_AbsentTokenBalanceIsZero ==
    \A p \in Procs :
        ( /\ Done(p, "get_balance")
          /\ loc[p].reply.kind = "success"
          /\ loc[p].reply.result.shape = "account" )
        => LET balances == IF call[p].state = "Committed"
                           THEN loc[p].reply.result.committed.balances
                           ELSE loc[p].reply.result.verified.balances
           IN ret[p] = Ok(IF call[p].token_symbol \in DOMAIN balances
                          THEN balances[call[p].token_symbol]
                          ELSE 0)

\* C9: sign_transfer called while the account id is unset returns the error
\* MissingAccountId, signs nothing and leaves the nonce cache as it was.
C9_MissingAccountIdError ==
    \A p \in Procs :
        (Done(p, "sign_transfer") /\ loc[p].id_unset)
        => /\ ret[p].tag = "Err" /\ ret[p].err.kind = "MissingAccountId"
           /\ ~loc[p].signed
           /\ ~noncePoisoned

\* C10: a prepare_sync_transfer given a fee sends no get_tx_fee request, cannot fail
\* on the fee estimate, and signs exactly the fee it was given.
C10_SuppliedFeeSkipsEstimate ==
    \A p \in Procs :
        (call[p].op = "prepare_sync_transfer" /\ call[p].supplied_fee.is_some)
        => /\ "get_tx_fee" \notin Range(reqs[p])
           /\ (pc[p] = "done" /\ ret[p].tag = "Panic")
              => ret[p].msg \notin {"prepare_sync_transfer: get_tx_fee unwrap on Err",
                                    "Incorrect totalFee entry of response",
                                    "failed to parse get_tx_fee response"}
           /\ (pc[p] = "done" /\ ret[p].tag = "Ok")
              => ret[p].val.transfer.fee = call[p].supplied_fee.val

\* C11: a sync_transfer whose tx_submit the node answers with failure 101 returns
\* that rejection to its caller as an error carrying the code.
C11_NonceMismatchReturnedAsError ==
    \A p \in Procs :
        (Done(p, "sync_transfer") /\ loc[p].reply = Failure(101))
        => (ret[p].tag = "Err" /\ ret[p].err.code = 101)

\* C12: every (transfer, message) pair sign_transfer returns has a message that
\* encodes the amount, the fee and the nonce of that transfer, which are the amount
\* and fee of the call, whether the nonce was explicit or read from the cache and
\* whatever other sign_transfer calls ran at the same time.
C12_DualSignatureConsistency ==
    \A p \in Procs :
        (Done(p, "sign_transfer") /\ ret[p].tag = "Ok")
        => LET transfer == ret[p].val.transfer
               message == ret[p].val.message
           IN /\ message.amount = transfer.amount
              /\ message.fee = transfer.fee
              /\ message.nonce = transfer.nonce
              /\ transfer.amount = call[p].amount
              /\ transfer.fee = call[p].fee

\* Two sign_transfer calls that ran at the same time, one with an explicit nonce
\* and one reading the cache, returned different nonces, each in its own message.
C12_Witness ==
    \E p, q \in Procs :
        /\ p # q /\ q \in overlap[p] /\ p \in overlap[q]
        /\ Done(p, "sign_transfer") /\ ret[p].tag = "Ok" /\ ~call[p].nonce.is_some
        /\ Done(q, "sign_transfer") /\ ret[q].tag = "Ok" /\ call[q].nonce.is_some
        /\ ret[p].val.transfer.nonce # ret[q].val.transfer.nonce
        /\ ret[p].val.message.nonce = ret[p].val.transfer.nonce
        /\ ret[q].val.message.nonce = ret[q].val.transfer.nonce

\* C13: an RpcClient call answered with a failure envelope returns an error whose
\* kind is the one of the envelope's code, a different kind for each known code,
\* and which carries the code.
C13_FailureCodesKeepIdentity ==
    \A p \in Procs :
        (pc[p] = "done" /\ call[p].op \in RpcMethods /\ loc[p].reply.kind = "failure")
        => /\ ret[p].tag = "Err"
           /\ ret[p].err.kind = RpcErrorCodeName(loc[p].reply.code)
           /\ ret[p].err.code = loc[p].reply.code

\* C14: an RpcClient call whose request meets a connection failure or a non-OK
\* status returns an error without decoding an envelope, and the kind of that error
\* is not the kind of the error any failure envelope yields.
C14_TransportErrorDistinctFromRejection ==
    \A p \in Procs :
        ( /\ pc[p] = "done" /\ call[p].op \in RpcMethods
          /\ loc[p].reply.kind \in {"conn_error", "http_status"} )
        => /\ ret[p].tag = "Err"
           /\ ~loc[p].decoded
           /\ \A c \in RpcErrorCodes : ret[p].err.kind # Post(Failure(c)).err.kind

\* The requests of a preparation, in the order of its steps: account id and nonce
\* (Sync), token catalogue, fee estimate.
PrepRequests == <<"account_info", "account_info", "tokens", "get_tx_fee">>

SignPositions == {"sign_lock_nonce", "sign_lock_id", "sign_new_signed",
                  "sign_increment", "sign_message"}

\* In every state of a preparation the requests sent so far are a prefix of the
\* step order, signing has started or happened only after all of them, and a
\* preparation that ended without a transfer has signed nothing.
C16_SignedOnlyAfterAllSteps ==
    \A p \in Procs :
        call[p].op = "prepare_sync_transfer" =>
            /\ Len(reqs[p]) <= Len(PrepRequests)
            /\ reqs[p] = SubSeq(PrepRequests, 1, Len(reqs[p]))
            /\ (loc[p].signed \/ pc[p] \in SignPositions) =>
                   /\ reqs[p] = PrepRequests
                   /\ account_id = Some(loc[p].account_id)
            /\ (pc[p] = "done" /\ ret[p].tag # "Ok") => ~loc[p].signed

\* The cached nonce changes only in the set_nonce of a Sync and in the increment of
\* a caller that has signed its transfer.
C16_IncrementOnlyAfterSigning ==
    nonce' # nonce =>
        \E p \in Procs :
            \/ pc[p] = "prep_set_nonce" /\ pc'[p] # pc[p] /\ nonce' = loc[p].sync_nonce
            \/ /\ pc[p] = "sign_increment" /\ pc'[p] = "sign_message"
               /\ loc[p].signed /\ reqs[p] = PrepRequests
               /\ nonce' = nonce + 1

\* C16: prepare_sync_transfer signs only after Sync, token resolution and fee
\* resolution have succeeded, in that order; when one of them fails no transfer is
\* signed and the cached nonce is not incremented.
C16_StepOrdering ==
    []C16_SignedOnlyAfterAllSteps /\ [][C16_IncrementOnlyAfterSigning]_vars

\* One preparation returned its transfer after all four requests, another failed at
\* token resolution having signed nothing, and the cache was incremented once.
C16_Witness ==
    \E p, q \in Procs :
        /\ Done(p, "prepare_sync_transfer") /\ ret[p].tag = "Ok"
        /\ loc[p].signed /\ reqs[p] = PrepRequests
        /\ Done(q, "prepare_sync_transfer") /\ ret[q].tag = "Panic"
        /\ Len(reqs[q]) = 3 /\ ~loc[q].signed
        /\ nonce = ret[p].val.transfer.nonce + 1

\* A preparation about to return holds a transfer whose nonce the cache has
\* already passed, and has sent no tx_submit.
C17_ConsumedWhenPrepared ==
    \A p \in Procs :
        (call[p].op = "prepare_sync_transfer" /\ pc[p] = "sign_message")
        => /\ nonce = loc[p].transfer.nonce + 1
           /\ "tx_submit" \notin Range(reqs[p])

\* The step in which a preparation returns leaves the cache one past the returned
\* nonce, and the step of a sync_transfer changes neither cached value.
C17_SubmissionKeepsCache ==
    \A p \in Procs :
        /\ ( /\ call[p].op = "prepare_sync_transfer" /\ pc[p] = "sign_message"
             /\ pc'[p] = "done" )
           => (ret'[p].tag = "Ok" /\ nonce' = ret'[p].val.transfer.nonce + 1)
        /\ (call[p].op # "sync_transfer" /\ call'[p].op = "sync_transfer")
           => (nonce' = nonce /\ account_id' = account_id)

\* C17: when prepare_sync_transfer returns, the cached nonce is already the signed
\* nonce + 1 and no tx_submit has been sent; sync_transfer leaves the cached nonce
\* and account id as they are, whether the node accepts or rejects the submission.
C17_NonceConsumedAtSigning ==
    []C17_ConsumedWhenPrepared /\ [][C17_SubmissionKeepsCache]_vars

\* A submission the node rejected: the nonce of the rejected transfer stays consumed.
C17_Witness ==
    \E p \in Procs :
        /\ Done(p, "sync_transfer") /\ loc[p].reply = Failure(101)
        /\ nonce = loc[p].transfer.nonce + 1
        /\ account_id.is_some
        /\ nodeNonce # loc[p].transfer.nonce

\* The steps of one sign_transfer call: the transfer takes the explicit nonce or the
\* cached one, the cache then moves by one or not at all as increment_nonce says,
\* nobody else moves it while the call holds the guard, and the call returns the
\* transfer it signed.
C18_SignSteps ==
    \A p \in Procs :
        /\ (pc[p] = "sign_new_signed" /\ pc'[p] = "sign_increment")
           => loc'[p].transfer.nonce =
                 (IF call[p].nonce.is_some THEN call[p].nonce.val ELSE nonce)
        /\ (pc[p] = "sign_increment" /\ pc'[p] = "sign_message")
           => nonce' = (IF call[p].increment_nonce THEN nonce + 1 ELSE nonce)
        /\ (p \in nonceHolders /\ pc'[p] = pc[p]) => nonce' = nonce
        /\ (pc[p] = "sign_message" /\ pc'[p] = "done")
           => (ret'[p].tag = "Ok" /\ ret'[p].val.transfer = loc[p].transfer)

\* C18: sign_transfer signs the explicit nonce when one is given and the cached nonce
\* otherwise; afterwards the cached nonce is its previous value + 1 when
\* increment_nonce is true and its previous value when it is false, whether or not
\* an explicit nonce was given.
C18_NonceSelection == [][C18_SignSteps]_vars

\* An explicit nonce 0 signed while the cache held 1: the transfer carries 0 and the
\* cache moved to 2.
C18_Witness ==
    \E p \in Procs :
        /\ Done(p, "sign_transfer") /\ ret[p].tag = "Ok"
        /\ call[p].nonce = Some(0) /\ call[p].increment_nonce
        /\ ret[p].val.transfer.nonce = 0
        /\ nonce = 2

\* At most one caller holds the nonce guard; a sign_transfer that read the cached
\* nonce still finds it in the cache when it comes to increment, and has incremented
\* it, with the guard still held and no request sent, when it comes to return.
C19_ReadToIncrementUndisturbed ==
    /\ Cardinality(nonceHolders) <= 1
    /\ \A p \in Procs :
          (call[p].op = "sign_transfer" /\ ~call[p].nonce.is_some) =>
              /\ pc[p] = "sign_increment"
                 => (p \in nonceHolders /\ nonce = loc[p].transfer.nonce)
              /\ (pc[p] = "sign_message" /\ call[p].increment_nonce)
                 => /\ p \in nonceHolders
                    /\ nonce = loc[p].transfer.nonce + 1
                    /\ reqs[p] = <<>>

\* While a caller holds the guard the cache is written by its increment alone, no
\* nonce() or set_nonce() of another caller takes effect, and nonce() returns the
\* cached value of the state it runs in.
C19_GuardExcludes ==
    /\ nonce' # nonce =>
          \/ nonceHolders = {}
          \/ \E p \in nonceHolders : pc[p] = "sign_increment" /\ pc'[p] = "sign_message"
    /\ \A q \in Procs :
          ( /\ call'[q].op \in {"nonce", "set_nonce"}
            /\ <<pc[q], call[q], ret[q]>> # <<pc'[q], call'[q], ret'[q]>> )
          => /\ nonceHolders = {}
             /\ call'[q].op = "nonce" => ret'[q] \in {Ok(NonceValue(nonce)), Panic("PoisonError")}
             /\ (call'[q].op = "set_nonce" /\ ret'[q].tag = "Ok") => nonce' = call'[q].arg.val

\* C19: the read, sign and increment of sign_transfer (nonce=None,
\* increment_nonce=true) are one atomic step for set_nonce, nonce() and every other
\* sign_transfer: nothing reads or writes the cache between the read and the
\* increment, and the increment is made before the guard is released and before
\* any request is sent.
C19_AtomicReadSignIncrement ==
    []C19_ReadToIncrementUndisturbed /\ [][C19_GuardExcludes]_vars

\* Two sign_transfer calls in flight together returned consecutive nonces, the
\* second of them the cache of the first's increment.
C19_Witness ==
    \E p, q \in Procs :
        /\ p # q /\ q \in overlap[p] /\ p \in overlap[q]
        /\ Done(p, "sign_transfer") /\ ret[p].tag = "Ok"
        /\ ~call[p].nonce.is_some /\ call[p].increment_nonce
        /\ Done(q, "sign_transfer") /\ ret[q].tag = "Ok"
        /\ ~call[q].nonce.is_some /\ call[q].increment_nonce
        /\ ret[q].val.transfer.nonce = ret[p].val.transfer.nonce + 1
        /\ nonce = ret[q].val.transfer.nonce + 1

\* C20: the message prepare_sync_transfer returns is rendered with the number of
\* decimals the node's token catalogue registers for the token of the transfer.
C20_MessageUsesTokenDecimals ==
    \A p \in Procs :
        (Done(p, "prepare_sync_transfer") /\ ret[p].tag = "Ok")
        => ret[p].val.message.decimals = TokenCatalogue[call[p].token_symbol].decimals

\* C21: a prepare_sync_transfer whose token symbol the node's catalogue does not
\* hold returns the error UnknownToken to its caller (unless the catalogue request
\* itself failed), having sent no fee request and signed nothing; one whose symbol
\* the catalogue holds signs a transfer carrying the catalogue's id for it.
C21_UnknownTokenError ==
    \A p \in Procs :
        Done(p, "prepare_sync_transfer") =>
            /\ ( /\ call[p].token_symbol \notin DOMAIN TokenCatalogue
                 /\ Len(reqs[p]) >= 3 )
               => /\ "get_tx_fee" \notin Range(reqs[p])
                  /\ ~loc[p].signed
                  /\ \/ ret[p].tag = "Err" /\ ret[p].err.kind = "UnknownToken"
                     \/ ret[p] \in {Panic("resolve_token_id: unwrap on Err"),
                                    Panic("failed to parse tokens response")}
            /\ ret[p].tag = "Ok"
               => /\ call[p].token_symbol \in DOMAIN TokenCatalogue
                  /\ ret[p].val.transfer.token = TokenCatalogue[call[p].token_symbol].id

\* C22: every RpcClient call sends exactly one request and returns a result or an
\* error, whatever the answer (a transport failure, a failure envelope and a poll
\* result that is not executed included), and every sync_transfer sends exactly
\* one tx_submit.
C22_NoAutomaticRetries ==
    \A p \in Procs :
        pc[p] = "done" =>
            /\ call[p].op \in RpcMethods
               => (reqs[p] = <<call[p].op>> /\ ret[p].tag \in {"Ok", "Err"})
            /\ call[p].op = "sync_transfer" => reqs[p] = <<"tx_submit">>

\* C23: no call on the signing context fails because of the state a failed
\* sign_transfer left the nonce guard or the account-id guard in: set_account_id,
\* set_nonce, nonce(), get_account_id and sign_transfer never end on a poisoned lock.
C23_ContextUsableAfterFailedSigning ==
    \A p \in Procs :
        ( /\ pc[p] = "done"
          /\ call[p].op \in {"set_account_id", "set_nonce", "nonce", "get_account_id",
                             "sign_transfer"} )
        => ret[p] # Panic("PoisonError")

\* C24 as claimed: the (account id, nonce) pair a prepare_sync_transfer signs is one
\* the node reported together in an account_info answer, hence an (id, committed
\* nonce) state the node's account has been in.
C24_SignedPairIsNodeSnapshot ==
    \A p \in Procs :
        (Done(p, "prepare_sync_transfer") /\ ret[p].tag = "Ok")
        => /\ nodeId = Some(ret[p].val.transfer.account_id)
           /\ ret[p].val.transfer.nonce \in 0 .. nodeNonce

\* A preparation that ran with no other preparation in flight signs the id and the
\* nonce it stored in its Sync.
C24_SoloSignsSyncedPair ==
    \A p \in Procs :
        (Done(p, "prepare_sync_transfer") /\ ret[p].tag = "Ok" /\ overlap[p] = {})
        => /\ ret[p].val.transfer.account_id = loc[p].account_id
           /\ ret[p].val.transfer.nonce = loc[p].sync_nonce

\* The account_info answer that supplies the nonce of a Sync reports, together with
\* that nonce, the account id the Sync has stored.
C24_NonceAnswerReportsStoredId ==
    \A p \in Procs :
        (pc[p] = "prep_get_nonce" /\ pc'[p] = "prep_set_nonce")
        => /\ nodeId = Some(loc[p].account_id)
           /\ account_id = nodeId
           /\ loc'[p].sync_nonce = nodeNonce

\* C24, amended: a prepare_sync_transfer that runs with no other preparation in
\* flight signs the (account id, nonce) pair of one account_info answer, the one
\* that supplied its nonce, whatever the node's account did during the preparation.
C24_SoloPairFromOneAnswer ==
    []C24_SoloSignsSyncedPair /\ [][C24_NonceAnswerReportsStoredId]_vars

\* The only preparation ever started signed the id the node assigned and the nonce
\* the node's account had advanced to.
C24_Witness ==
    \E p \in Procs :
        /\ Done(p, "prepare_sync_transfer") /\ ret[p].tag = "Ok" /\ overlap[p] = {}
        /\ calls = 1
        /\ nodeNonce = 1
        /\ ret[p].val.transfer.nonce = 1
        /\ Some(ret[p].val.transfer.account_id) = nodeId

\* Locks are taken in one order: a caller holding the account-id guard holds the
\* nonce guard already, each guard has one holder at most, and whenever calls are
\* in flight one of them can take its next step.
C25_NoCircularWait ==
    /\ Cardinality(nonceHolders) <= 1
    /\ Cardinality(idHolders) <= 1
    /\ idHolders \subseteq nonceHolders
    /\ (\E p \in Procs : InFlight(p)) => (\E p \in Procs : ENABLED SignSteps(p))

\* C25: under every interleaving of sign_transfer, set_nonce, nonce(),
\* set_account_id and get_account_id calls on one ZksyncAccount no circular wait on
\* the two locks arises, and every call that has started eventually ends.
C25_DeadlockFreedom ==
    /\ []C25_NoCircularWait
    /\ \A p \in Procs : InFlight(p) ~> ~InFlight(p)

\* One sign_transfer holds both guards while another waits for the nonce guard.
C25_Witness ==
    \E p, q \in Procs :
        /\ p # q
        /\ pc[p] = "sign_new_signed" /\ p \in nonceHolders /\ p \in idHolders
        /\ pc[q] = "sign_lock_nonce"

\* C26: for every success answer of the shape {executed: bool, block?: {..,
\* verified: bool}} tx_info and ethop_info return an OperationState and do not
\* abort, also when executed is true and the answer has no block; when executed is
\* true and a block is present the verified returned is the block's flag.
C26_DocumentedShapeYieldsState ==
    \A p \in Procs :
        ( /\ (Done(p, "tx_info") \/ Done(p, "ethop_info"))
          /\ loc[p].reply.kind = "success"
          /\ loc[p].reply.result.shape = "object"
          /\ loc[p].reply.result.executed.is_some
          /\ loc[p].reply.result.block.is_some
                => loc[p].reply.result.block.val.verified.is_some )
        => /\ ret[p].tag = "Ok"
           /\ ret[p].val.executed = loc[p].reply.result.executed.val
           /\ (ret[p].val.executed /\ loc[p].reply.result.block.is_some)
                 => ret[p].val.verified = loc[p].reply.result.block.val.verified.val

====
